---- MODULE Spec2Model ----
(***************************************************************************)
(* transmit_audio of src/transmit_fm.py as a state machine: one call of    *)
(* the function, from the audio read to the returned status, with every    *)
(* call on the PlutoSDR handle recorded in hw in the order it is made.     *)
(*                                                                         *)
(* Rates are floats in the source (48e3, 1e6) and are truncated with       *)
(* int() where they are used; the model keeps a float rate as a whole      *)
(* number of half-Hz so that the truncation is a real conversion.          *)
(* Sample values are exact rationals [n, d]; float32 rounding is not        *)
(* modelled.  The signal handed to the chunk loop is the sequence of its   *)
(* sample positions 1..N, which is what chunking and ordering depend on.   *)
(* Spec runs the call on silent files of every shape with every parameter; *)
(* SpecValues runs it on files with sample values and fixed device         *)
(* parameters.                                                             *)
(***************************************************************************)
EXTENDS Integers, Sequences, FiniteSets, TLC

\* ---------------------------------------------------------------- bounds
MaxRate == 3
MaxLen == 3
MaxChunk == 3
MaxFrames == 2

\* FM_DEVIATION = 5e3
FM_DEVIATION == 5000

\* np.iinfo(np.int16).max and .min: integer PCM is modelled as 16-bit signed.
IInfoMax == 32767
IInfoMin == -32768

\* Float rates handed to transmit_audio, in half-Hz: -1.0, 0.0, 0.5,
\* 1.0 .. MaxRate, and MaxRate + 0.5.
Rates == {-2, 0, 1} \cup {2 * r : r \in 1..MaxRate} \cup {2 * MaxRate + 1}
ChunkSizes == -1..MaxChunk
Dtypes == {"integer", "floating", "other"}

VARIABLES
    pc,                      \* position in transmit_audio
    audio_target_rate,       \* parameter (half-Hz)
    sample_rate,             \* parameter (half-Hz)
    chunk_size,              \* parameter
    fm_deviation,            \* parameter (Hz)
    fs_audio,                \* sample rate read from the file (Hz, an int)
    ndim,                    \* audio_data.ndim
    dtype,                   \* kind of audio_data.dtype
    len_audio,               \* len(audio_data)
    audio_data,              \* frames as read, then the mono float samples
    up, down,                \* factors of the first resampling
    len_resampled,           \* len(audio_resampled) = len(fm_signal)
    audio_resampled,         \* samples at the intermediate rate
    phase,                   \* instantaneous phase, in units of pi
    fm_signal,               \* exp(1j * phase)
    up_sdr, down_sdr,        \* factors of the second resampling
    fm_signal_sdr,           \* the signal handed to the chunk loop
    total_samples,
    num_chunks,
    i,                       \* loop index
    sdr,                     \* "None", "Pluto" (bound to the handle), "deleted"
    transmission_successful,
    err,                     \* the stage whose error message was printed
    hw,                      \* calls made on the device (and the settle sleep)
    result                   \* what the call returned

vars == <<pc, audio_target_rate, sample_rate, chunk_size, fm_deviation, fs_audio,
          ndim, dtype, len_audio, audio_data, up, down, len_resampled,
          audio_resampled, phase, fm_signal, up_sdr, down_sdr, fm_signal_sdr,
          total_samples, num_chunks, i, sdr, transmission_successful, err, hw,
          result>>

params == <<audio_target_rate, sample_rate, chunk_size, fm_deviation>>
audio == <<fs_audio, ndim, dtype, len_audio, audio_data>>
first == <<up, down, len_resampled, audio_resampled>>
second == <<phase, fm_signal, up_sdr, down_sdr, fm_signal_sdr>>
plan == <<total_samples, num_chunks>>

\* ------------------------------------------------------- pure functions

Abs(x) == IF x < 0 THEN -x ELSE x

\* int(x) of a float given in half-Hz: truncation toward zero.
IntOf(x) == IF x >= 0 THEN x \div 2 ELSE -((-x) \div 2)

RECURSIVE Euclid(_, _)
Euclid(a, b) == IF b = 0 THEN a ELSE Euclid(b, a % b)

\* math.gcd: of the absolute values, gcd(0, 0) = 0.
Gcd(a, b) == Euclid(Abs(a), Abs(b))

\* a // b of Python (floor division), b > 0.
FloorDiv(a, b) == a \div b

ResampleFactorsUnreduced(target, source) == [up |-> target, down |-> source]

\* up = target // gcd; down = source // gcd (gcd /= 0).
ResampleFactors(target, source) ==
    LET g == Gcd(target, source)
    IN  [up |-> FloorDiv(target, g), down |-> FloorDiv(source, g)]

\* resample_poly raises ValueError unless up >= 1 and down >= 1.
ResamplePolyRaises(u, d) == u < 1 \/ d < 1

\* Length of resample_poly's output: ceil(n * up / down), up, down >= 1.
ResampleLen(n, u, d) == (n * u + d - 1) \div d

NumChunksFloor(total, size) ==
    IF size > 0 THEN total \div size ELSE -(total \div (-size))

\* math.ceil(total_samples / chunk_size), chunk_size /= 0, total >= 0.
NumChunks(total, size) ==
    IF size > 0 THEN (total + size - 1) \div size ELSE -(total \div (-size))

Min(a, b) == IF a < b THEN a ELSE b

StartIdx(k, size) == k * size
EndIdx(k, size, total) == Min((k + 1) * size, total)

\* s[lo:hi] of Python for 0 <= lo: the bounds are clipped to len(s).
Slice(s, lo, hi) ==
    LET h == Min(hi, Len(s))
    IN  IF lo >= h THEN << >> ELSE SubSeq(s, lo + 1, h)

\* ------------------------------------------------------- sample values

\* The rational n/d in lowest terms with a positive denominator (d /= 0).
Rat(n, d) ==
    LET g == Gcd(n, d)
        sgn == IF d < 0 THEN -1 ELSE 1
    IN  [n |-> sgn * (n \div g), d |-> sgn * (d \div g)]

Zero == [n |-> 0, d |-> 1]
RAdd(a, b) == Rat(a.n * b.d + b.n * a.d, a.d * b.d)
RMul(a, b) == Rat(a.n * b.n, a.d * b.d)
RDiv(a, b) == Rat(a.n * b.d, a.d * b.n)
RAbs(a) == [n |-> Abs(a.n), d |-> a.d]
RLe(a, b) == a.n * b.d <= b.n * a.d

\* np.max(np.abs(x)) of a non-empty x.
Peak(x) ==
    CHOOSE p \in {RAbs(x[k]) : k \in DOMAIN x} :
        \A k \in DOMAIN x : RLe(RAbs(x[k]), p)

RECURSIVE SumInts(_)
SumInts(f) == IF f = << >> THEN 0 ELSE Head(f) + SumInts(Tail(f))

\* A file's data: frames of nd channel values each.  A silent file of n
\* frames, and the files of 1..MaxFrames frames over PcmValues.
PcmValues == {IInfoMin, 0, 16384}
SilentFiles ==
    {[nd |-> c, frames |-> [k \in 1..n |-> [j \in 1..c |-> 0]]] :
        n \in 0..MaxLen, c \in 1..2}
PcmFiles ==
    UNION {{[nd |-> c, frames |-> f] : f \in [1..n -> [1..c -> PcmValues]]} :
        n \in 1..MaxFrames, c \in 1..2}

\* audio_data.mean(axis=1) when audio_data.ndim > 1, else audio_data.
Mono(data, nd) ==
    [k \in DOMAIN data |->
        IF nd > 1 THEN Rat(SumInts(data[k]), nd) ELSE Rat(data[k][1], 1)]

MaxOf(a, b) == IF a > b THEN a ELSE b

\* scale = max(abs(max_val), abs(min_val)) of np.iinfo(audio_data.dtype).
IntegerScale == Rat(MaxOf(Abs(IInfoMax), Abs(IInfoMin)), 1)

\* audio_data.astype(np.float32) / scale
ScaleInteger(x) == [k \in DOMAIN x |-> RDiv(x[k], IntegerScale)]

\* Division by the peak absolute value when it is positive (x non-empty).
PeakNormalize(x) ==
    IF Peak(x).n > 0 THEN [k \in DOMAIN x |-> RDiv(x[k], Peak(x))] ELSE x

\* audio_resampled / max_abs_resampled * 0.95 when the peak is positive.
NormalizeResampled(x) ==
    IF Peak(x).n > 0
    THEN [k \in DOMAIN x |-> RMul(RDiv(x[k], Peak(x)), Rat(19, 20))]
    ELSE x

\* Sample values a polyphase filter may produce from a signal that is not
\* silent: the filter itself is not modelled.
FilterValues == {Rat(-1, 1), Zero, Rat(3, 2)}

\* What resample_poly(x, u, d) may return: x itself for u = d = 1, silence
\* for silence (the filter is linear), else some signal of the length
\* ceil(len(x) * u / d).
ResampleValues(x, u, d) ==
    IF u = 1 /\ d = 1 THEN {x}
    ELSE IF \A k \in DOMAIN x : x[k] = Zero
    THEN {[k \in 1..ResampleLen(Len(x), u, d) |-> Zero]}
    ELSE [1..ResampleLen(Len(x), u, d) -> FilterValues]

\* sensitivity = 2.0 * np.pi * fm_deviation / fs_resampled, in units of pi;
\* fs is in half-Hz.
Sensitivity(dev, fs) == Rat(4 * dev, fs)

RECURSIVE CumSumTo(_, _)
CumSumTo(x, k) == IF k = 0 THEN Zero ELSE RAdd(CumSumTo(x, k - 1), x[k])

\* A running sum that starts again at every chunk_size samples.
CumSumPerChunk(x) ==
    [k \in DOMAIN x |->
        LET c == IF chunk_size > 0 THEN chunk_size ELSE 1
            lo == ((k - 1) \div c) * c
        IN  CumSumTo([m \in 1..(k - lo) |-> x[lo + m]], k - lo)]

\* np.cumsum(x)
CumSum(x) == [k \in DOMAIN x |-> CumSumTo(x, k)]

\* np.exp(1j * phase): the unit phasor of argument ph (in units of pi).
Exp1j(ph) == [mag |-> 1, arg |-> ph]

\* ------------------------------------------------------- the call log

Call(op, ok) == [op |-> op, ok |-> ok, idx |-> -1, chunk |-> << >>]
Tx(k, chunk, ok) == [op |-> "tx", ok |-> ok, idx |-> k, chunk |-> chunk]

\* time.sleep(0.5), in milliseconds.
SettleDelayMs == 500

Sleep(ms) == [op |-> "sleep", ok |-> TRUE, idx |-> ms, chunk |-> << >>]

Bool(b) == IF b THEN "True" ELSE "False"

Return(v) == pc' = "returned" /\ result' = v

\* ------------------------------------------------------------- Init

\* The locals of the call before its first statement.
Entry ==
    /\ pc = "read"
    /\ fs_audio = 0 /\ ndim = 0 /\ dtype = "unset" /\ len_audio = 0
    /\ audio_data = << >>
    /\ up = 0 /\ down = 0 /\ len_resampled = 0
    /\ audio_resampled = << >> /\ phase = << >> /\ fm_signal = << >>
    /\ up_sdr = 0 /\ down_sdr = 0 /\ fm_signal_sdr = << >>
    /\ total_samples = 0 /\ num_chunks = 0 /\ i = 0
    /\ sdr = "None"
    /\ transmission_successful = FALSE
    /\ err = "none"
    /\ hw = << >>
    /\ result = "unset"

\* A call with any rates and chunk size and the default deviation.
Init ==
    /\ audio_target_rate \in Rates
    /\ sample_rate \in Rates
    /\ chunk_size \in ChunkSizes
    /\ fm_deviation = FM_DEVIATION
    /\ Entry

\* A call at 1 Hz (given as 1.0 or 1.5) to a device at 1 or 2 Hz, in chunks
\* of one or two samples, with a deviation of 1 Hz or the default.
InitValues ==
    /\ audio_target_rate \in {2, 3}
    /\ sample_rate \in {2, 4}
    /\ chunk_size \in 1..2
    /\ fm_deviation \in {1, FM_DEVIATION}
    /\ Entry

\* ------------------------------------------------ 1. read the audio file

\* wavfile.read raises, or returns (fs_audio, audio_data); the print that
\* follows divides by fs_audio inside the same try.
ReadFrom(rates, files) ==
    /\ pc = "read"
    /\ \E ok \in BOOLEAN, fs \in rates, file \in files, dt \in Dtypes :
         IF ok
         THEN /\ fs_audio' = fs /\ ndim' = file.nd /\ dtype' = dt
              /\ len_audio' = Len(file.frames)
              /\ audio_data' = file.frames
              /\ IF fs = 0
                 THEN Return("False") /\ err' = "read"
                 ELSE pc' = "preprocess" /\ UNCHANGED <<result, err>>
         ELSE /\ Return("False") /\ err' = "read"
              /\ UNCHANGED audio
    /\ UNCHANGED <<params, first, second, plan, i, sdr, transmission_successful, hw>>

\* The read of a silent file of any shape and rate.
ReadAudio == ReadFrom(0..MaxRate, SilentFiles)

\* The read of a file with sample values, recorded at 1 or 2 Hz.
ReadSamples == ReadFrom(1..2, PcmFiles)

\* ------------------------------------------------ 2. preprocess

\* audio_data.mean(axis=1) of integer samples is float64.
MeanDtype(dt) == IF dt = "integer" THEN "floating" ELSE dt

Preprocess ==
    /\ pc = "preprocess"
    /\ LET dt == IF ndim > 1 THEN MeanDtype(dtype) ELSE dtype
           mono == Mono(audio_data, ndim)
       IN  /\ ndim' = 1
           /\ IF dt = "integer"
              THEN /\ dtype' = "floating"
                   /\ audio_data' = ScaleInteger(mono)
                   /\ pc' = "resample_audio"
                   /\ UNCHANGED <<result, err>>
              ELSE IF dt = "floating"
              THEN /\ dtype' = "floating"
                   /\ IF len_audio = 0
                      THEN /\ pc' = "raised"
                           /\ audio_data' = mono
                           /\ UNCHANGED <<result, err>>
                      ELSE /\ pc' = "resample_audio"
                           /\ audio_data' = PeakNormalize(mono)
                           /\ UNCHANGED <<result, err>>
              ELSE \E castOk \in BOOLEAN :
                     IF castOk /\ len_audio > 0
                     THEN /\ dtype' = "floating"
                          /\ audio_data' = PeakNormalize(mono)
                          /\ pc' = "resample_audio"
                          /\ UNCHANGED <<result, err>>
                     ELSE /\ dtype' = dt
                          /\ audio_data' = mono
                          /\ Return("None")
                          /\ err' = "convert"
    /\ UNCHANGED <<params, fs_audio, len_audio, first, second, plan, i, sdr,
                   transmission_successful, hw>>

\* ------------------------------------------------ resample to the audio rate

\* What the handler of a resampling failure returns.
OnResampleErrorBare == "None"

OnResampleError == "False"

\* gcd, up and down are computed before the try; resample_poly runs inside it.
\* An empty input that resample_poly does not return as it is (up = down = 1)
\* may raise inside the filter or come back empty.
ResampleAudio ==
    /\ pc = "resample_audio"
    /\ IF Gcd(IntOf(audio_target_rate), fs_audio) = 0
       THEN /\ pc' = "raised"
            /\ UNCHANGED <<first, result, err>>
       ELSE LET f == ResampleFactors(IntOf(audio_target_rate), fs_audio)
            IN  /\ up' = f.up
                /\ down' = f.down
                /\ \E emptyRaises \in BOOLEAN :
                     IF \/ ResamplePolyRaises(f.up, f.down)
                        \/ (len_audio = 0 /\ ~(f.up = 1 /\ f.down = 1) /\ emptyRaises)
                     THEN /\ Return(OnResampleError)
                          /\ err' = "resample_audio"
                          /\ UNCHANGED <<len_resampled, audio_resampled>>
                     ELSE /\ len_resampled' = ResampleLen(len_audio, f.up, f.down)
                          /\ audio_resampled' \in ResampleValues(audio_data, f.up, f.down)
                          /\ pc' = "normalize"
                          /\ UNCHANGED <<result, err>>
    /\ UNCHANGED <<params, audio, second, plan, i, sdr, transmission_successful, hw>>

\* np.max of an empty array raises ValueError, outside any try.
Normalize ==
    /\ pc = "normalize"
    /\ IF len_resampled = 0
       THEN pc' = "raised" /\ UNCHANGED audio_resampled
       ELSE pc' = "modulate" /\ audio_resampled' = NormalizeResampled(audio_resampled)
    /\ UNCHANGED <<params, audio, up, down, len_resampled, second, plan, i, sdr,
                   transmission_successful, err, hw, result>>

\* ------------------------------------------------ 3. FM modulation

ModulateSkipsResample ==
    /\ pc = "modulate"
    /\ pc' = "scale"
    /\ UNCHANGED <<params, audio, first, second, plan, i, sdr,
                   transmission_successful, err, hw, result>>

\* phase = sensitivity * np.cumsum(audio_resampled)
Phase(x, sensitivity) == [k \in DOMAIN x |-> RMul(sensitivity, CumSum(x)[k])]

\* fm_signal has one sample per sample of audio_resampled.
Modulate ==
    /\ pc = "modulate"
    /\ LET sensitivity == Sensitivity(fm_deviation, audio_target_rate)
           ph == Phase(audio_resampled, sensitivity)
       IN  /\ phase' = ph
           /\ fm_signal' = [k \in DOMAIN ph |-> Exp1j(ph[k])]
    /\ pc' = "resample_sdr"
    /\ UNCHANGED <<params, audio, first, up_sdr, down_sdr, fm_signal_sdr, plan, i, sdr,
                   transmission_successful, err, hw, result>>

\* ------------------------------------------------ 4. resample to the SDR rate

\* fs_resampled is audio_target_rate, the float.
ResampleSdr ==
    /\ pc = "resample_sdr"
    /\ IF Gcd(IntOf(sample_rate), IntOf(audio_target_rate)) = 0
       THEN /\ pc' = "raised"
            /\ UNCHANGED <<up_sdr, down_sdr, fm_signal_sdr, result, err>>
       ELSE LET f == ResampleFactors(IntOf(sample_rate), IntOf(audio_target_rate))
            IN  /\ up_sdr' = f.up
                /\ down_sdr' = f.down
                /\ IF ResamplePolyRaises(f.up, f.down)
                   THEN /\ Return(OnResampleError)
                        /\ err' = "resample_sdr"
                        /\ UNCHANGED fm_signal_sdr
                   ELSE /\ fm_signal_sdr' =
                             [k \in 1..ResampleLen(len_resampled, f.up, f.down) |-> k]
                        /\ pc' = "scale"
                        /\ UNCHANGED <<result, err>>
    /\ UNCHANGED <<params, audio, first, phase, fm_signal, plan, i, sdr,
                   transmission_successful, hw>>

\* fm_signal_sdr *= 0.5 * 2**15, then sdr = None, transmission_successful = False.
Scale ==
    /\ pc = "scale"
    /\ pc' = "connect"
    /\ sdr' = "None"
    /\ transmission_successful' = FALSE
    /\ UNCHANGED <<params, audio, first, second, plan, i, err, hw, result>>

\* ------------------------------------------------ 5. initialise the SDR

InitErrorNoRelease(s) == << >>

\* except Exception of the initialisation: if sdr: del sdr.
InitErrorCleanup(s) == IF s = "Pluto" THEN <<Call("release", TRUE)>> ELSE << >>

\* A failed call inside the initialisation try: the handler releases the
\* handle if one was bound and returns False.
InitFailed(op) ==
    /\ hw' = Append(hw, Call(op, FALSE)) \o InitErrorCleanup(sdr)
    /\ sdr' = IF sdr = "Pluto" THEN "deleted" ELSE sdr
    /\ err' = "init_sdr"
    /\ Return("False")

InitStepIgnoresFailure(here, op, next) ==
    /\ pc = here
    /\ \E ok \in BOOLEAN : hw' = Append(hw, Call(op, ok))
    /\ pc' = next
    /\ UNCHANGED <<sdr, err, result>>
    /\ UNCHANGED <<params, audio, first, second, plan, i, transmission_successful>>

InitStep(here, op, next) ==
    /\ pc = here
    /\ \E ok \in BOOLEAN :
         IF ok
         THEN /\ hw' = Append(hw, Call(op, TRUE))
              /\ pc' = next
              /\ UNCHANGED <<sdr, err, result>>
         ELSE InitFailed(op)
    /\ UNCHANGED <<params, audio, first, second, plan, i, transmission_successful>>

\* sdr = adi.Pluto(uri=sdr_uri)
Connect ==
    /\ pc = "connect"
    /\ \E ok \in BOOLEAN :
         IF ok
         THEN /\ hw' = Append(hw, Call("connect", TRUE))
              /\ sdr' = "Pluto"
              /\ pc' = "set_sample_rate"
              /\ UNCHANGED <<err, result>>
         ELSE InitFailed("connect")
    /\ UNCHANGED <<params, audio, first, second, plan, i, transmission_successful>>

SetSampleRate == InitStep("set_sample_rate", "set_sample_rate", "set_tx_lo")

SetTxLo == InitStep("set_tx_lo", "set_tx_lo", "set_tx_gain")

SetTxGain == InitStep("set_tx_gain", "set_tx_gain", "set_cyclic")

SetCyclic == InitStep("set_cyclic", "set_cyclic", "destroy_buffer")

\* sdr.tx_destroy_buffer() in its own try: a failure is only noted.
DestroyBufferFirst ==
    /\ pc = "destroy_buffer"
    /\ \E ok \in BOOLEAN : hw' = Append(hw, Call("destroy_buffer", ok))
    /\ pc' = "report"
    /\ UNCHANGED <<params, audio, first, second, plan, i, sdr,
                   transmission_successful, err, result>>

\* The three prints read tx_lo, sample_rate and tx_hardwaregain_chan0 back.
ReportLo == InitStep("report", "get_tx_lo", "report_rate")

ReportRate == InitStep("report_rate", "get_sample_rate", "report_gain")

ReportGain == InitStep("report_gain", "get_tx_gain", "plan_chunks")

\* ------------------------------------------------ 6. transmit

\* total_samples and num_chunks are computed before the try: a chunk_size
\* of zero raises ZeroDivisionError there.
PlanChunks ==
    /\ pc = "plan_chunks"
    /\ total_samples' = Len(fm_signal_sdr)
    /\ IF chunk_size = 0
       THEN pc' = "raised" /\ UNCHANGED num_chunks
       ELSE /\ num_chunks' = NumChunks(Len(fm_signal_sdr), chunk_size)
            /\ pc' = "enable"
    /\ UNCHANGED <<params, audio, first, second, i, sdr, transmission_successful,
                   err, hw, result>>

\* sdr.tx_enabled_channels = [0]; a failure is caught by the outer except.
EnableTx ==
    /\ pc = "enable"
    /\ \E ok \in BOOLEAN :
         /\ hw' = Append(hw, Call("enable", ok))
         /\ IF ok
            THEN /\ pc' = "loop"
                 /\ i' = 0
                 /\ UNCHANGED <<transmission_successful, err>>
            ELSE /\ pc' = "cleanup"
                 /\ transmission_successful' = FALSE
                 /\ err' = "transmit"
                 /\ UNCHANGED i
    /\ UNCHANGED <<params, audio, first, second, plan, sdr, result>>

OnTxErrorContinue(k) == [pc |-> "loop", i |-> k + 1]

OnTxErrorSkipSettle(k) == [pc |-> "cleanup", i |-> k]

OnTxErrorRetry(k) == [pc |-> "loop", i |-> k]

\* except Exception as tx_e: print, break.
OnTxError(k) == [pc |-> "settle", i |-> k]

\* One iteration of for i in range(num_chunks).
SendChunk ==
    /\ pc = "loop"
    /\ i < num_chunks
    /\ LET start_idx == StartIdx(i, chunk_size)
           end_idx == EndIdx(i, chunk_size, total_samples)
           chunk == Slice(fm_signal_sdr, start_idx, end_idx)
       IN  IF Len(chunk) = 0
           THEN /\ i' = i + 1
                /\ UNCHANGED <<pc, hw>>
           ELSE \E ok \in BOOLEAN :
                  /\ hw' = Append(hw, Tx(i, chunk, ok))
                  /\ IF ok
                     THEN i' = i + 1 /\ UNCHANGED pc
                     ELSE pc' = OnTxError(i).pc /\ i' = OnTxError(i).i
    /\ UNCHANGED <<params, audio, first, second, plan, sdr, transmission_successful,
                   err, result>>

\* range(num_chunks) is exhausted.
LoopDone ==
    /\ pc = "loop"
    /\ i >= num_chunks
    /\ pc' = "settle"
    /\ UNCHANGED <<params, audio, first, second, plan, i, sdr,
                   transmission_successful, err, hw, result>>

\* time.sleep(0.5); transmission_successful = True
Settle ==
    /\ pc = "settle"
    /\ hw' = Append(hw, Sleep(SettleDelayMs))
    /\ transmission_successful' = TRUE
    /\ pc' = "cleanup"
    /\ UNCHANGED <<params, audio, first, second, plan, i, sdr, err, result>>

\* ------------------------------------------------ 7. cleanup (finally)

OnCleanupErrorFails(ts) == FALSE

\* except Exception as cleanup_e: print only.
OnCleanupError(ts) == ts

\* sdr.tx_enabled_channels = []
CleanupDisable ==
    /\ pc = "cleanup"
    /\ \E ok \in BOOLEAN :
         /\ hw' = Append(hw, Call("disable", ok))
         /\ IF ok
            THEN pc' = "cleanup_destroy" /\ UNCHANGED transmission_successful
            ELSE /\ pc' = "release"
                 /\ transmission_successful' = OnCleanupError(transmission_successful)
    /\ UNCHANGED <<params, audio, first, second, plan, i, sdr, err, result>>

\* sdr.tx_destroy_buffer()
CleanupDestroy ==
    /\ pc = "cleanup_destroy"
    /\ \E ok \in BOOLEAN :
         /\ hw' = Append(hw, Call("destroy_buffer", ok))
         /\ transmission_successful' =
              IF ok THEN transmission_successful
              ELSE OnCleanupError(transmission_successful)
    /\ pc' = "release"
    /\ UNCHANGED <<params, audio, first, second, plan, i, sdr, err, result>>

\* finally: del sdr
Release ==
    /\ pc = "release"
    /\ hw' = Append(hw, Call("release", TRUE))
    /\ sdr' = "deleted"
    /\ pc' = "return_status"
    /\ UNCHANGED <<params, audio, first, second, plan, i, transmission_successful,
                   err, result>>

\* return transmission_successful
ReturnStatus ==
    /\ pc = "return_status"
    /\ Return(Bool(transmission_successful))
    /\ UNCHANGED <<params, audio, first, second, plan, i, sdr,
                   transmission_successful, err, hw>>

\* Everything after the read.
Pipeline ==
    \/ Preprocess
    \/ ResampleAudio
    \/ Normalize
    \/ Modulate
    \/ ResampleSdr
    \/ Scale
    \/ Connect
    \/ SetSampleRate
    \/ SetTxLo
    \/ SetTxGain
    \/ SetCyclic
    \/ DestroyBufferFirst
    \/ ReportLo
    \/ ReportRate
    \/ ReportGain
    \/ PlanChunks
    \/ EnableTx
    \/ SendChunk
    \/ LoopDone
    \/ Settle
    \/ CleanupDisable
    \/ CleanupDestroy
    \/ Release
    \/ ReturnStatus

Next == ReadAudio \/ Pipeline

NextValues == ReadSamples \/ Pipeline

Spec == Init /\ [][Next]_vars

SpecValues == InitValues /\ [][NextValues]_vars

\* ================================================================ claims

IsTx(c) == c.op = "tx"
TxCalls == SelectSeq(hw, IsTx)
Terminal == pc \in {"returned", "raised"}
Ops(s) == [k \in DOMAIN s |-> s[k].op]
After(k) == SubSeq(hw, k + 1, Len(hw))
Released == {k \in DOMAIN hw : hw[k].op = "release"}
SomeTxFailed == \E k \in DOMAIN hw : hw[k].op = "tx" /\ ~hw[k].ok
Planned == pc \in {"enable", "loop", "settle", "cleanup", "cleanup_destroy",
                   "release", "return_status"}
              \/ (pc = "returned" /\ \E k \in DOMAIN hw : hw[k].op = "enable")

RECURSIVE Flatten(_)
Flatten(ss) == IF ss = << >> THEN << >> ELSE Head(ss) \o Flatten(Tail(ss))

\* C1 (as claimed): whenever some chunk send failed, the call returns False.
C1_FalseOnChunkFailure ==
    (pc = "returned" /\ SomeTxFailed) => result = "False"

\* ---- C2

ConfigWrites == {"set_sample_rate", "set_tx_lo", "set_tx_gain"}
RejectedAt ==
    {k \in DOMAIN hw : hw[k].op \in ConfigWrites /\ ~hw[k].ok}

C3_HandleNeverLeaks ==
    (Terminal /\ hw # << >> /\ hw[1] = Call("connect", TRUE)) =>
        /\ Cardinality(Released) = 1
        /\ hw[Len(hw)].op = "release"
        /\ sdr = "deleted"

\* C4: after a failed chunk send no further send is issued in that call.
C4_AbortOnFirstFailure ==
    \A k \in DOMAIN hw :
        (hw[k].op = "tx" /\ ~hw[k].ok) =>
            \A j \in DOMAIN hw : j > k => hw[j].op # "tx"

\* C4 witness: a send failed while later chunks were still to be sent, and
\* the call has returned.
C4_Witness ==
    /\ pc = "returned"
    /\ \E k \in DOMAIN hw :
         hw[k].op = "tx" /\ ~hw[k].ok /\ hw[k].idx + 1 < num_chunks

\* ---- C5

\* The chunk sizes the loop produces for a signal of n samples.
ChunkLens(n, size) ==
    [k \in 1..NumChunks(n, size) |->
        Min(EndIdx(k - 1, size, n), n) - StartIdx(k - 1, size)]

LoopCompleted ==
    /\ pc \in {"settle", "cleanup", "cleanup_destroy", "release", "return_status",
               "returned"}
    /\ \E k \in DOMAIN hw : hw[k] = Call("enable", TRUE)
    /\ ~SomeTxFailed

\* C5: for chunk_size C > 0 and a signal of N samples the loop produces
\* ceil(N/C) chunks, chunk i covering samples [i*C, min((i+1)*C, N)), none
\* empty, only the last shorter than C, and their concatenation in index
\* order is the signal; N = 20000, C = 8192 gives 8192, 8192, 3616; N = 0
\* gives no chunk.
C5_Chunking ==
    /\ (Planned /\ chunk_size > 0) =>
         LET tx == TxCalls
             N == total_samples
             C == chunk_size
         IN  /\ num_chunks * C >= N
             /\ (num_chunks - 1) * C < N
             /\ \A j \in 1..Len(tx) :
                  /\ tx[j].chunk = [m \in 1..(Min(j * C, N) - (j - 1) * C) |->
                                       fm_signal_sdr[(j - 1) * C + m]]
                  /\ Len(tx[j].chunk) >= 1
                  /\ Len(tx[j].chunk) <= C
                  /\ Len(tx[j].chunk) < C => j = num_chunks
             /\ LoopCompleted =>
                  /\ Len(tx) = num_chunks
                  /\ Flatten([j \in 1..Len(tx) |-> tx[j].chunk]) = fm_signal_sdr
    /\ ChunkLens(20000, 8192) = <<8192, 8192, 3616>>
    /\ \A C \in 1..MaxChunk : ChunkLens(0, C) = << >>

\* C5 witness: a completed loop of at least three chunks whose last chunk is
\* shorter than chunk_size.
C5_Witness ==
    /\ pc = "returned"
    /\ LoopCompleted
    /\ chunk_size > 1
    /\ num_chunks >= 3
    /\ total_samples % chunk_size # 0

\* C6: the chunk indices handed to sdr.tx are 0, 1, 2, ... with no gap,
\* repetition or reordering, and every send but the last one made returned
\* successfully.
C6_InOrder ==
    LET tx == TxCalls
    IN  \A j \in 1..Len(tx) :
          /\ tx[j].idx = j - 1
          /\ j < Len(tx) => tx[j].ok

\* C6 witness: at least three chunks were sent and the call has returned.
C6_Witness ==
    /\ pc = "returned"
    /\ Len(TxCalls) >= 3

\* C7 (as claimed): the call returns a boolean, and False after any stage
\* failure.
C7_BooleanResult ==
    pc = "returned" =>
        /\ result \in {"True", "False"}
        /\ err # "none" => result = "False"

\* C8: a failure of the channel disable or of the buffer destroy during
\* cleanup leaves transmission_successful as it was, the handle is released
\* all the same, and the value returned is transmission_successful.
C8_CleanupNeverOverrides ==
    [][ /\ pc \in {"cleanup", "cleanup_destroy", "release"} =>
             transmission_successful' = transmission_successful
        /\ pc = "return_status" =>
             /\ result' = Bool(transmission_successful)
             /\ hw[Len(hw)].op = "release"
             /\ sdr = "deleted" ]_vars

\* C8 witness: the channel disable failed during cleanup after a finished
\* loop, and the call returned True.
C8_Witness ==
    /\ pc = "returned"
    /\ result = "True"
    /\ \E k \in DOMAIN hw : hw[k] = Call("disable", FALSE)
    /\ hw[Len(hw)].op = "release"

\* ---- C9

Coprime(a, b) == \A q \in 2..Min(a, b) : ~(a % q = 0 /\ b % q = 0)

RatioOk(u, d, source, target) ==
    /\ u > 0
    /\ d > 0
    /\ Coprime(u, d)
    /\ u * source = d * target
    /\ \E g \in 1..Min(source, target) : g * u = target /\ g * d = source

\* C9: for positive integer rates both resampling steps derive up = target/g
\* and down = source/g with g = gcd(source, target): up and down are
\* positive, coprime, and up * source = down * target; 44100 -> 48000 gives
\* g = 300, up = 160, down = 147.
C9_Coprime ==
    /\ ((up # 0 \/ down # 0) /\ fs_audio >= 1 /\ IntOf(audio_target_rate) >= 1) =>
         RatioOk(up, down, fs_audio, IntOf(audio_target_rate))
    /\ ((up_sdr # 0 \/ down_sdr # 0) /\ IntOf(audio_target_rate) >= 1
          /\ IntOf(sample_rate) >= 1) =>
         RatioOk(up_sdr, down_sdr, IntOf(audio_target_rate), IntOf(sample_rate))
    /\ Gcd(48000, 44100) = 300
    /\ ResampleFactors(48000, 44100) = [up |-> 160, down |-> 147]
    /\ RatioOk(160, 147, 44100, 48000)

\* C9 witness: both steps ran, the first with rates that share a factor and
\* the second with a ratio other than 1.
C9_Witness ==
    /\ pc = "connect"
    /\ Gcd(IntOf(audio_target_rate), fs_audio) > 1
    /\ up_sdr # down_sdr

\* ---- C10

BadStep(target, source) ==
    \/ target <= 0
    \/ source <= 0
    \/ target \div Gcd(target, source) = 0
    \/ source \div Gcd(target, source) = 0

\* C10: a resampling step whose source or target rate is non-positive after
\* truncation, or whose up or down factor is zero, ends the call with False
\* (a file rate of zero already does so in the read stage); the call neither
\* raises nor continues, and no device call is ever made.
C10_BadRatesFail ==
    [][ /\ (pc = "read" /\ pc' # "read" /\ fs_audio' <= 0) =>
             (pc' = "returned" /\ result' = "False")
        /\ (pc = "resample_audio" /\ BadStep(IntOf(audio_target_rate), fs_audio)) =>
             (pc' = "returned" /\ result' = "False" /\ err' = "resample_audio")
        /\ (pc = "resample_sdr"
              /\ BadStep(IntOf(sample_rate), IntOf(audio_target_rate))) =>
             (pc' = "returned" /\ result' = "False" /\ err' = "resample_sdr")
        /\ (IntOf(audio_target_rate) <= 0 \/ IntOf(sample_rate) <= 0
              \/ (pc # "read" /\ fs_audio <= 0)) =>
             hw' = << >> ]_vars

\* C10 witness: the second resampling step failed on a device rate of 0.5 Hz,
\* which truncates to zero, and the call returned False.
C10_Witness ==
    /\ pc = "returned"
    /\ err = "resample_sdr"
    /\ sample_rate = 1
    /\ up_sdr = 0
    /\ result = "False"
    /\ hw = << >>

\* ---- C13

\* Position of the first successful call of op in the log, 0 if there is none.
FirstOk(op) ==
    LET at == {k \in DOMAIN hw : hw[k].op = op /\ hw[k].ok}
    IN  IF at = {} THEN 0 ELSE CHOOSE k \in at : \A j \in at : k <= j

\* Position of the first attempt of op in the log, 0 if there is none.
FirstTry(op) ==
    LET at == {k \in DOMAIN hw : hw[k].op = op}
    IN  IF at = {} THEN 0 ELSE CHOOSE k \in at : \A j \in at : k <= j

\* The session state the first n calls of the log leave the device in.
SessionState(n) ==
    LET did(op) == \E k \in 1..n : hw[k].op = op /\ hw[k].ok
        tried(op) == \E k \in 1..n : hw[k].op = op
    IN  IF tried("release") \/ tried("disable") THEN "Closed"
        ELSE IF did("enable") THEN "Streaming"
        ELSE IF did("set_sample_rate") /\ did("set_tx_lo") /\ did("set_tx_gain")
             THEN "Configured"
        ELSE IF did("connect") THEN "Connected"
        ELSE "Disconnected"

\* C13: a chunk is sent only after, in this order, the connection was opened,
\* the sample rate, the center frequency and the gain were written, a destroy
\* of the transmit buffer was attempted and the channel was enabled; the
\* session is in the Streaming state at every send.
C13_SendOnlyWhenStreaming ==
    \A k \in DOMAIN hw :
        hw[k].op = "tx" =>
            /\ 0 < FirstOk("connect")
            /\ FirstOk("connect") < FirstOk("set_sample_rate")
            /\ FirstOk("set_sample_rate") < FirstOk("set_tx_lo")
            /\ FirstOk("set_tx_lo") < FirstOk("set_tx_gain")
            /\ FirstOk("set_tx_gain") < FirstTry("destroy_buffer")
            /\ FirstTry("destroy_buffer") < FirstOk("enable")
            /\ FirstOk("enable") < k
            /\ SessionState(k - 1) = "Streaming"

\* C13 witness: a chunk was sent although the first destroy of the buffer
\* had failed, and the call has returned.
C13_Witness ==
    /\ pc = "returned"
    /\ \E k \in DOMAIN hw : hw[k].op = "tx" /\ hw[k].ok
    /\ \E k \in DOMAIN hw : hw[k] = Call("destroy_buffer", FALSE)
                              /\ k = FirstTry("destroy_buffer")

\* ---- C15

InCleanupOrLater ==
    pc \in {"cleanup", "cleanup_destroy", "release", "return_status", "returned"}

\* C15: when at least one chunk was sent successfully, the settle delay of
\* 0.5 s occurs exactly once, after every chunk send and before the cleanup
\* disables the channel, destroys the buffer and releases the handle.
C15_SettleOnce ==
    (InCleanupOrLater /\ \E k \in DOMAIN hw : hw[k].op = "tx" /\ hw[k].ok) =>
        LET naps == {k \in DOMAIN hw : hw[k].op = "sleep"}
        IN  /\ Cardinality(naps) = 1
            /\ \A k \in naps :
                 /\ hw[k].idx = 500
                 /\ \A j \in DOMAIN hw :
                      /\ hw[j].op = "tx" => j < k
                      /\ hw[j].op \in {"disable", "release"} => j > k
                      /\ (hw[j].op = "destroy_buffer" /\ j > FirstOk("enable")) => j > k

\* C15 witness: chunks were sent, a later send failed, and the call returned
\* after the cleanup.
C15_Witness ==
    /\ pc = "returned"
    /\ \E k \in DOMAIN hw : hw[k].op = "tx" /\ hw[k].ok
    /\ SomeTxFailed
    /\ \E k \in DOMAIN hw : hw[k] = Call("destroy_buffer", TRUE) /\ k > FirstOk("enable")

\* ---- C14

\* The stage of the pipeline a position of transmit_audio belongs to.
Stage(p) ==
    CASE p \in {"read", "preprocess"} -> 1
      [] p \in {"resample_audio", "normalize"} -> 2
      [] p = "modulate" -> 3
      [] p = "resample_sdr" -> 4
      [] p = "scale" -> 5
      [] p \in {"connect", "set_sample_rate", "set_tx_lo", "set_tx_gain",
                "set_cyclic", "destroy_buffer", "report", "report_rate",
                "report_gain"} -> 6
      [] OTHER -> 7

\* C14: the stages run in the order ingest, resample, modulate, resample,
\* scale, connect/configure, stream, none skipped; a failing stage ends the
\* call (the transmit stage goes to its cleanup), and no device call is made
\* before the connect stage, hence none when the read, the conversion or a
\* resampling step fails.
C14_ShortCircuit ==
    [][ /\ pc' \notin {"returned", "raised"} =>
             Stage(pc') \in {Stage(pc), Stage(pc) + 1}
        /\ err' # err =>
             \/ pc' = "returned"
             \/ (err' = "transmit" /\ pc' = "cleanup")
        /\ err' \in {"read", "convert", "resample_audio", "resample_sdr"} =>
             hw' = << >>
        /\ hw' # hw => Stage(pc) >= 6 ]_vars

\* C14 witness: the first resampling step failed and the call returned with
\* no device call made.
C14_Witness ==
    /\ pc = "returned"
    /\ err = "resample_audio"
    /\ up < 1
    /\ hw = << >>

\* ---- C11

\* C11 (as claimed): for integer PCM with any number of channels, every mono
\* sample after the conversion is the average of its frame's channel values
\* divided by 32768, whatever the recording's peak, and has magnitude <= 1.
C11_IntegerPcmScaling ==
    [][ (pc = "preprocess" /\ dtype = "integer" /\ pc' = "resample_audio") =>
          /\ Len(audio_data') = Len(audio_data)
          /\ \A k \in DOMAIN audio_data :
               /\ audio_data'[k] =
                    RDiv(Rat(SumInts(audio_data[k]), ndim), Rat(32768, 1))
               /\ RLe(RAbs(audio_data'[k]), Rat(1, 1)) ]_vars

\* ---- C12

RECURSIVE RSum(_)
RSum(x) == IF x = << >> THEN Zero ELSE RAdd(Head(x), RSum(Tail(x)))

Modulated ==
    pc \in {"resample_sdr", "scale", "connect", "set_sample_rate", "set_tx_lo",
            "set_tx_gain", "set_cyclic", "destroy_buffer", "report", "report_rate",
            "report_gain", "plan_chunks", "enable", "loop", "settle", "cleanup",
            "cleanup_destroy", "release", "return_status"}
      \/ (Terminal /\ fm_signal_sdr # << >>)

Silence(n) == [k \in 1..n |-> Zero]

\* C12: once modulated, and at every later point of the call including every
\* chunk send, the phase of sample k is the sensitivity times the sum of the
\* first k modulator inputs, with no reset, and the output sample is the
\* unit phasor of that phase; the chunks are slices of the one signal made
\* from it; 10 zero samples at 5000 Hz deviation and 48000 Hz give phase 0
\* and the sample 1+0i throughout.
C12_PhaseContinuity ==
    /\ Modulated =>
         /\ Len(phase) = Len(audio_resampled)
         /\ Len(phase) >= 1
         /\ Len(fm_signal) = Len(phase)
         /\ \A k \in DOMAIN phase :
              /\ phase[k] = RMul(Rat(4 * fm_deviation, audio_target_rate),
                                 RSum(SubSeq(audio_resampled, 1, k)))
              /\ fm_signal[k] = [mag |-> 1, arg |-> phase[k]]
    /\ \A j \in DOMAIN hw :
         hw[j].op = "tx" =>
             /\ Len(fm_signal_sdr) = ResampleLen(Len(fm_signal), up_sdr, down_sdr)
             /\ \A m \in DOMAIN hw[j].chunk :
                  hw[j].chunk[m] = fm_signal_sdr[hw[j].idx * chunk_size + m]
    /\ Phase(Silence(10), Sensitivity(5000, 2 * 48000)) = Silence(10)
    /\ Exp1j(Zero) = [mag |-> 1, arg |-> Zero]

\* C12 witness: a signal whose first two inputs are not zero was modulated and
\* sent in at least two chunks, and the call has returned.
C12_Witness ==
    /\ pc = "returned"
    /\ Len(TxCalls) >= 2
    /\ Len(phase) >= 2
    /\ audio_resampled[1] # Zero
    /\ audio_resampled[2] # Zero
    /\ phase[2] # phase[1]
    /\ chunk_size = 1
====
